---- MODULE Spec2Model ----
(***************************************************************************)
(* A model of cobalt's MessageQueue (src/shared/message_queue.rs): the     *)
(* three outbound pending queues, the quota driven packer, the 3-byte wire *)
(* codec, the ordered-delivery reassembler with its min-heap, loss         *)
(* handling and reset.                                                     *)
(*                                                                         *)
(* A queue is a record with the fields of struct MessageQueue.  Every      *)
(* public method is an operator from a queue (and its arguments) to the    *)
(* queue after the call, and one action of the specifications below.       *)
(***************************************************************************)
EXTENDS Integers, Sequences, FiniteSets, Bags, TLC

VARIABLES
    q,          \* the MessageQueue under test (the sender in SpecNet)
    peer,       \* a second MessageQueue, the receiver (SpecNet only)
    network,    \* packets written by send_packet and not yet received or lost
    config,     \* the Config the queue was built with (quota percentages)
    overflow_checks, \* build flavour: TRUE = usize overflow panics (debug)
    panicked,   \* a call panicked; the queue is not used afterwards
    fresh,      \* what was called since new()/reset(): "new" / "reset"
                \* (neither send nor lost_packet yet), "lost" (lost_packet
                \* but no send), "sent" (send was called)
    codec_in,   \* SpecCodec: the messages encoded so far
    codec_bytes, \* SpecCodec: the concatenation of their encodings
    codec_out,  \* SpecCodec: what messages_from_packet made of codec_bytes
    sent,       \* Ordered messages passed to send since new()/reset()
    lost,       \* number of packets reported lost so far (SpecNet)
    delivered,  \* payloads the receiver's received() yielded since the
                \* start state, in order (SpecNet)
    yielded,    \* Ordered payloads the receiver yielded since construction
    overrun,    \* at some time more than MAX_ORDER_ID Ordered messages
                \* were sent and not yet yielded by the receiver
    cmp_in,     \* SpecOrder: the pair of order ids to compare
    cmp_out     \* SpecOrder: order_is_more_recent of the pair, both ways

vars == <<q, peer, network, config, overflow_checks, panicked, fresh,
          codec_in, codec_bytes, codec_out, sent, lost, delivered, yielded,
          overrun, cmp_in, cmp_out>>

-----------------------------------------------------------------------------
(* Program constants *)

MAX_ORDER_ID == 4096

MESSAGE_HEADER_BYTES == 3

Instant == 0

Reliable == 1

Ordered == 2

Invalid == 3

-----------------------------------------------------------------------------
(* Bounds of the model *)

\* longest payload passed to send
MaxLen == 1

\* most messages held by the queue, all five containers together
MaxHeld == 3

\* how far local_order_id may run ahead of a start id
MaxIdSpan == 1

\* largest byte budget passed to send_packet
MaxAvail == 7

\* SpecNet: Ordered messages sent on top of the initial state
MaxSent == 4

\* SpecNet: packets the network may report lost
MaxLost == 2

-----------------------------------------------------------------------------
(* u8 / u16 arithmetic *)

Min(a, b) == IF a <= b THEN a ELSE b

RECURSIVE BitAnd(_, _)
BitAnd(a, b) ==
    IF a = 0 \/ b = 0 THEN 0
    ELSE (a % 2) * (b % 2) + 2 * BitAnd(a \div 2, b \div 2)

RECURSIVE BitOr(_, _)
BitOr(a, b) ==
    IF a = 0 THEN b
    ELSE IF b = 0 THEN a
    ELSE (IF a % 2 = 1 \/ b % 2 = 1 THEN 1 ELSE 0)
         + 2 * BitOr(a \div 2, b \div 2)

\* `x as u8`
AsU8(x) == x % 256

\* a u16 shifted left / right by 4 bits
Shl4(x) == (x * 16) % 65536

Shr4(x) == x \div 16

-----------------------------------------------------------------------------
(* struct Message and the wire codec *)

Message(kind, order, size, data) ==
    [kind |-> kind, order |-> order, size |-> size, data |-> data]

\* variant: the high bits of the order in the low nibble of the first byte
MutEncodeLowNibble(m) ==
    <<BitOr(AsU8(BitAnd(m.order, 3840) \div 256), m.kind),
      AsU8(m.order), m.size>> \o m.data

\* the 3 header bytes and the payload that write_message pushes
EncodeMessage(m) ==
    <<BitOr(AsU8(Shr4(BitAnd(m.order, 3840))), m.kind),
      AsU8(m.order), m.size>> \o m.data

KindOfTag(t) ==
    CASE t = 0 -> Instant
      [] t = 1 -> Reliable
      [] t = 2 -> Ordered
      [] OTHER -> Invalid

\* variant: the high nibble of the first byte is not shifted up
MutDecodeNoShift(packet, index) ==
    LET available == Len(packet)
        order_high == BitAnd(packet[index + 1], 240)
        order_low == packet[index + 2]
        size == packet[index + 3]
    IN  Message(KindOfTag(BitAnd(packet[index + 1], 15)),
                BitOr(order_high, order_low),
                AsU8(size),
                SubSeq(packet, index + MESSAGE_HEADER_BYTES + 1,
                       Min(index + MESSAGE_HEADER_BYTES + size, available)))

\* the Message that messages_from_packet builds at byte offset index
DecodeAt(packet, index) ==
    LET available == Len(packet)
        order_high == Shl4(BitAnd(packet[index + 1], 240))
        order_low == packet[index + 2]
        size == packet[index + 3]
    IN  Message(KindOfTag(BitAnd(packet[index + 1], 15)),
                BitOr(order_high, order_low),
                AsU8(size),
                SubSeq(packet, index + MESSAGE_HEADER_BYTES + 1,
                       Min(index + MESSAGE_HEADER_BYTES + size, available)))

\* variant: a message whose payload is cut short is not decoded
RECURSIVE MutDecodeFromStrict(_, _)
MutDecodeFromStrict(packet, index) ==
    LET available == Len(packet)
    IN  IF index < available /\ available - index >= 3
           /\ index + MESSAGE_HEADER_BYTES + packet[index + 3] <= available
        THEN <<DecodeAt(packet, index)>>
             \o MutDecodeFromStrict(packet,
                    index + packet[index + 3] + MESSAGE_HEADER_BYTES)
        ELSE <<>>

\* the `while index < available && available - index >= 3` loop
RECURSIVE DecodeFrom(_, _)
DecodeFrom(packet, index) ==
    LET available == Len(packet)
    IN  IF index < available /\ available - index >= 3
        THEN <<DecodeAt(packet, index)>>
             \o DecodeFrom(packet,
                    index + packet[index + 3] + MESSAGE_HEADER_BYTES)
        ELSE <<>>

messages_from_packet(packet) == DecodeFrom(packet, 0)

-----------------------------------------------------------------------------
(* Sequence arithmetic *)

\* variant: plain numeric comparison, no circular window
MutMoreRecentNumeric(a, b) == a > b

\* variant: ids exactly half the id space apart are each ahead of the other
MutMoreRecentBothAtHalf(a, b) ==
    \/ (a > b) /\ (a - b <= MAX_ORDER_ID \div 2)
    \/ (b > a) /\ (b - a >= MAX_ORDER_ID \div 2)

\* order_is_more_recent: a is ahead of b by at most half the id space
order_is_more_recent(a, b) ==
    \/ (a > b) /\ (a - b <= MAX_ORDER_ID \div 2)
    \/ (b > a) /\ (b - a > MAX_ORDER_ID \div 2)

\* variant: the order id is incremented without the wrap to 0
MutNextOrderIdNoWrap(id) == id + 1

\* `id += 1; if id == MAX_ORDER_ID { id = 0 }`
NextOrderId(id) == IF id + 1 = MAX_ORDER_ID THEN 0 ELSE id + 1

-----------------------------------------------------------------------------
(* MessageQueue: construction, send, received *)

\* MessageQueue::new, with the order ids given (0 after construction)
NewQueue(local, remote) ==
    [local_order_id |-> local, remote_order_id |-> remote,
     i_queue |-> <<>>, r_queue |-> <<>>, o_queue |-> <<>>,
     recv_queue |-> <<>>, o_recv_heap |-> EmptyBag]

new == NewQueue(0, 0)

\* variant: local_order_id is incremented without the wrap to 0
MutSendNoWrap(mq, kind, data) ==
    LET message == Message(kind, mq.local_order_id, AsU8(Len(data)), data)
    IN  CASE kind = Instant ->
                [mq EXCEPT !.i_queue = Append(@, message)]
          [] kind = Reliable ->
                [mq EXCEPT !.r_queue = Append(@, message)]
          [] kind = Ordered ->
                [mq EXCEPT !.o_queue = Append(@, message),
                           !.local_order_id = @ + 1]
          [] OTHER -> mq

\* send: the message is stamped with local_order_id whatever its kind and
\* appended to the pending queue of its kind; Invalid is ignored
send(mq, kind, data) ==
    LET message == Message(kind, mq.local_order_id, AsU8(Len(data)), data)
    IN  CASE kind = Instant ->
                [mq EXCEPT !.i_queue = Append(@, message)]
          [] kind = Reliable ->
                [mq EXCEPT !.r_queue = Append(@, message)]
          [] kind = Ordered ->
                [mq EXCEPT !.o_queue = Append(@, message),
                           !.local_order_id = NextOrderId(@)]
          [] OTHER -> mq

\* variant: the item is read but stays in the ready queue
MutReceivedNextKeeps(mq) ==
    IF mq.recv_queue # <<>>
    THEN [some |-> TRUE, item |-> Head(mq.recv_queue).data, queue |-> mq]
    ELSE [some |-> FALSE, item |-> <<>>, queue |-> mq]

\* one MessageIterator::next() on received(): the item and the queue after
received_next(mq) ==
    IF mq.recv_queue # <<>>
    THEN [some |-> TRUE, item |-> Head(mq.recv_queue).data,
          queue |-> [mq EXCEPT !.recv_queue = Tail(@)]]
    ELSE [some |-> FALSE, item |-> <<>>, queue |-> mq]

-----------------------------------------------------------------------------
(* The packer.  A packing state holds the three pending queues, the bytes  *)
(* appended to the packet so far, the running total `written`, whether an  *)
(* `available - *written` subtraction panicked, and `log`, the messages    *)
(* popped and serialized so far, in the order they were written.           *)

\* variant: the message at the back of the queue is taken
MutWriteMessageFromBack(s, f, available, written, checks) ==
    IF s[f] # <<>>
    THEN LET last == s[f][Len(s[f])]
             required == last.size + MESSAGE_HEADER_BYTES
         IN  IF written > available \/ required > available - written
             THEN [ok |-> FALSE, written |-> written, s |-> s]
             ELSE [ok |-> TRUE, written |-> written + required,
                   s |-> [s EXCEPT ![f] = SubSeq(@, 1, Len(@) - 1),
                                   !.packet = @ \o EncodeMessage(last),
                                   !.log = Append(@, last)]]
    ELSE [ok |-> FALSE, written |-> written, s |-> s]

\* write_message on the pending queue named `f` of packing state s, against
\* the budget `available` and the counter value `written`.  The usize
\* subtraction `available - *written` overflows when written > available: a
\* build with overflow checks panics there, one without wraps to a value
\* near 2^64, which no `required` (at most 258) exceeds.
write_message(s, f, available, written, checks) ==
    IF s[f] # <<>>
    THEN LET required == Head(s[f]).size + MESSAGE_HEADER_BYTES
         IN  IF written > available /\ checks
             THEN [ok |-> FALSE, written |-> written,
                   s |-> [s EXCEPT !.panic = TRUE]]
             ELSE IF written <= available /\ required > available - written
             THEN [ok |-> FALSE, written |-> written, s |-> s]
             ELSE [ok |-> TRUE, written |-> written + required,
                   s |-> [s EXCEPT ![f] = Tail(@),
                                   !.packet = @ \o EncodeMessage(Head(s[f])),
                                   !.log = Append(@, Head(s[f]))]]
    ELSE [ok |-> FALSE, written |-> written, s |-> s]

\* the `while write_message(queue, packet, available, &mut used) {}` loop
RECURSIVE WriteWhile(_, _, _, _, _)
WriteWhile(s, f, available, used, checks) ==
    LET w == write_message(s, f, available, used, checks)
    IN  IF w.ok THEN WriteWhile(w.s, f, available, w.written, checks)
        ELSE [s |-> w.s, used |-> w.written]

\* variant: the kind's quota is measured against the packet's running total
MutWriteMessagesCumulative(s, f, available, checks) ==
    LET r == WriteWhile(s, f, available, s.written, checks)
    IN  [r.s EXCEPT !.written = r.used]

\* write_messages: `used` starts at 0 for each kind and is added to
\* `written` afterwards
write_messages(s, f, available, checks) ==
    LET r == WriteWhile(s, f, available, 0, checks)
    IN  [r.s EXCEPT !.written = @ + r.used]

\* `(available as f32 / 100.0 * quota) as usize`.  For the quotas 0, 20, 60
\* and 100 and every budget below 53 the truncated f32 product is the integer
\* floor computed here (at 53 bytes and 100% the f32 product is 52.999996).
QuotaBytes(available, quota) == (available * quota) \div 100

\* one iteration of `while more { ... }`: a message of each kind in turn
FillRound(s, available, checks) ==
    LET a == write_message(s, "i_queue", available, s.written, checks)
        sa == [a.s EXCEPT !.written = a.written]
        b == write_message(sa, "r_queue", available, sa.written, checks)
        sb == [b.s EXCEPT !.written = b.written]
        c == write_message(sb, "o_queue", available, sb.written, checks)
        sc == [c.s EXCEPT !.written = c.written]
    IN  IF sa.panic THEN [more |-> FALSE, s |-> sa]
        ELSE IF sb.panic THEN [more |-> FALSE, s |-> sb]
        ELSE [more |-> (a.ok \/ b.ok \/ c.ok) /\ ~sc.panic, s |-> sc]

\* variant: a single round instead of `while more`
MutFillOnce(s, available, checks) == FillRound(s, available, checks).s

\* the `while more { ... }` loop of send_packet
RECURSIVE FillLoop(_, _, _)
FillLoop(s, available, checks) ==
    LET r == FillRound(s, available, checks)
    IN  IF r.more THEN FillLoop(r.s, available, checks) ELSE r.s

\* the quota pass of send_packet
QuotaPass(mq, cfg, available, checks) ==
    LET s0 == [i_queue |-> mq.i_queue, r_queue |-> mq.r_queue,
               o_queue |-> mq.o_queue, packet |-> <<>>, written |-> 0,
               panic |-> FALSE, log |-> <<>>]
        s1 == write_messages(s0, "i_queue",
                  QuotaBytes(available, cfg.message_quota_instant), checks)
        s2 == write_messages(s1, "r_queue",
                  QuotaBytes(available, cfg.message_quota_reliable), checks)
    IN  write_messages(s2, "o_queue",
            QuotaBytes(available, cfg.message_quota_ordered), checks)

\* send_packet on an empty `packet`: the final packing state
send_packet(mq, cfg, available, checks) ==
    FillLoop(QuotaPass(mq, cfg, available, checks), available, checks)

\* the queue after send_packet
AfterSendPacket(mq, s) ==
    [mq EXCEPT !.i_queue = s.i_queue, !.r_queue = s.r_queue,
               !.o_queue = s.o_queue]

-----------------------------------------------------------------------------
(* The reassembler.  o_recv_heap is a BinaryHeap<Message> whose Ord        *)
(* compares `order` alone, reversed: peek()/pop() give an entry of the     *)
(* numerically smallest order.  Which one of several entries of equal      *)
(* order comes out depends on the heap's internal layout, so the heap is a *)
(* bag and pop() a choice among its entries of smallest order; the         *)
(* operators below return the set of queues a call may leave.              *)

HeapPush(heap, m) == heap (+) SetToBag({m})

HeapRemove(heap, m) == heap (-) SetToBag({m})

HeapSize(heap) == BagCardinality(heap)

\* variant: the entries of the numerically largest order
MutPeekNewest(heap) ==
    {m \in BagToSet(heap) : \A o \in BagToSet(heap) : m.order >= o.order}

\* the entries peek() may return: Ord for Message reverses the comparison of
\* `order`, so the greatest element of the BinaryHeap is one whose order is
\* numerically smallest
HeapPeek(heap) ==
    {m \in BagToSet(heap) : \A o \in BagToSet(heap) : m.order <= o.order}

\* the `while matches { ... }` loop of receive_ordered_message
RECURSIVE DrainHeap(_)
DrainHeap(mq) ==
    LET matching == {m \in HeapPeek(mq.o_recv_heap) :
                        m.order = mq.remote_order_id}
    IN  IF matching = {} THEN {mq}
        ELSE UNION {DrainHeap([mq EXCEPT
                        !.o_recv_heap = HeapRemove(@, msg),
                        !.recv_queue = Append(@, msg),
                        !.remote_order_id = NextOrderId(@)]) :
                    msg \in matching}

\* variant: every Ordered message is made ready at once
MutReceiveOrderedNoCheck(mq, m) ==
    {[mq EXCEPT !.recv_queue = Append(@, m)]}

\* receive_ordered_message: the expected message is made ready and the heap
\* drained, a more recent one is buffered, any other is dropped
receive_ordered_message(mq, m) ==
    IF m.order = mq.remote_order_id
    THEN DrainHeap([mq EXCEPT !.recv_queue = Append(@, m),
                              !.remote_order_id = NextOrderId(@)])
    ELSE IF order_is_more_recent(m.order, mq.remote_order_id)
    THEN {[mq EXCEPT !.o_recv_heap = HeapPush(@, m)]}
    ELSE {mq}

\* variant: a message of no valid kind is made ready like a Reliable one
MutReceiveMessageKeepsInvalid(mq, m) ==
    CASE m.kind = Ordered -> receive_ordered_message(mq, m)
      [] OTHER -> {[mq EXCEPT !.recv_queue = Append(@, m)]}

\* the body of receive_packet's `for m in ...` for one message
ReceiveMessage(mq, m) ==
    CASE m.kind = Instant -> {[mq EXCEPT !.recv_queue = Append(@, m)]}
      [] m.kind = Reliable -> {[mq EXCEPT !.recv_queue = Append(@, m)]}
      [] m.kind = Ordered -> receive_ordered_message(mq, m)
      [] OTHER -> {mq}

RECURSIVE ReceiveAll(_, _)
ReceiveAll(mqs, msgs) ==
    IF msgs = <<>> THEN mqs
    ELSE ReceiveAll(UNION {ReceiveMessage(mq, Head(msgs)) : mq \in mqs},
                    Tail(msgs))

\* the queues receive_packet may leave
receive_packet(mq, packet) == ReceiveAll({mq}, messages_from_packet(packet))

-----------------------------------------------------------------------------
(* Loss handling and reset *)

\* variant: lost messages are appended behind the pending ones
MutLostMessageBack(mq, m) ==
    CASE m.kind = Reliable -> [mq EXCEPT !.r_queue = Append(@, m)]
      [] m.kind = Ordered -> [mq EXCEPT !.o_queue = Append(@, m)]
      [] OTHER -> mq

\* variant: a re-queued message gets the current local_order_id
MutLostMessageRestamp(mq, m) ==
    CASE m.kind = Reliable ->
            [mq EXCEPT !.r_queue = <<[m EXCEPT !.order = mq.local_order_id]>>
                                    \o @]
      [] m.kind = Ordered ->
            [mq EXCEPT !.o_queue = <<[m EXCEPT !.order = mq.local_order_id]>>
                                    \o @]
      [] OTHER -> mq

\* variant: lost Instant messages are re-queued as well
MutLostMessageInstant(mq, m) ==
    CASE m.kind = Instant -> [mq EXCEPT !.i_queue = <<m>> \o @]
      [] m.kind = Reliable -> [mq EXCEPT !.r_queue = <<m>> \o @]
      [] m.kind = Ordered -> [mq EXCEPT !.o_queue = <<m>> \o @]
      [] OTHER -> mq

\* the body of lost_packet's `for m in ...` for one message
LostMessage(mq, m) ==
    CASE m.kind = Instant -> mq
      [] m.kind = Reliable -> [mq EXCEPT !.r_queue = <<m>> \o @]
      [] m.kind = Ordered -> [mq EXCEPT !.o_queue = <<m>> \o @]
      [] OTHER -> mq

RECURSIVE LostAll(_, _)
LostAll(mq, msgs) ==
    IF msgs = <<>> THEN mq
    ELSE LostAll(LostMessage(mq, Head(msgs)), Tail(msgs))

lost_packet(mq, packet) == LostAll(mq, messages_from_packet(packet))

\* variant: only the containers are cleared
MutResetKeepsOrderIds(mq) ==
    [mq EXCEPT !.i_queue = <<>>, !.r_queue = <<>>, !.o_queue = <<>>,
               !.recv_queue = <<>>, !.o_recv_heap = EmptyBag]

\* reset: both order ids to 0, all five containers cleared
reset(mq) ==
    [mq EXCEPT !.local_order_id = 0, !.remote_order_id = 0,
               !.i_queue = <<>>, !.r_queue = <<>>, !.o_queue = <<>>,
               !.recv_queue = <<>>, !.o_recv_heap = EmptyBag]

-----------------------------------------------------------------------------
(* Inputs of the calls *)

\* Config: the three quota percentages, each in [0, 100]
DefaultConfig ==
    [message_quota_instant |-> 60, message_quota_reliable |-> 20,
     message_quota_ordered |-> 20]

FullConfig ==
    [message_quota_instant |-> 100, message_quota_reliable |-> 100,
     message_quota_ordered |-> 100]

\* The builds modelled: a Config and whether usize overflow panics.  With
\* the default quotas no subtraction overflows, so one flavour is kept.
Builds ==
    {<<DefaultConfig, FALSE>>, <<FullConfig, FALSE>>, <<FullConfig, TRUE>>}

\* payloads passed to send
PayloadOf(n) == [i \in 1..n |-> 7]

Payloads == {PayloadOf(n) : n \in 0..MaxLen}

Kinds == {Instant, Reliable, Ordered, Invalid}

Budgets == 0..MaxAvail

\* <<local_order_id, remote_order_id>> of a queue whose containers are
\* empty: just constructed, and after 4095 Ordered messages were sent and
\* packed and 4094 were received in order and read.
StartIds == {<<0, 0>>, <<MAX_ORDER_ID - 1, MAX_ORDER_ID - 2>>}

\* order ids carried by the Ordered messages of incoming packets
InOrders == {0, 1, MAX_ORDER_ID - 2, MAX_ORDER_ID - 1}

\* single messages of incoming / lost packets
InOrdered(o) == EncodeMessage(Message(Ordered, o, 0, <<>>))

\* Instant and Reliable messages of a packet carry the order id the sender
\* had when they were passed to send: here the id before both start ids
PastId == MAX_ORDER_ID - 2

InInstant == EncodeMessage(Message(Instant, PastId, 0, <<>>))

InReliable(data) == EncodeMessage(Message(Reliable, PastId, Len(data), data))

\* packets passed to receive_packet and lost_packet: single Ordered
\* messages around the wrap, packets of two and three messages, a message
\* whose tag is no MessageKind, a packet with an incomplete header and one
\* whose message declares more data than the packet holds
InPackets ==
    {InOrdered(o) : o \in InOrders}
    \cup {InOrdered(0) \o InOrdered(1),
          InReliable(<<>>) \o InReliable(<<7>>),
          InInstant \o InReliable(<<7>>) \o InOrdered(1),
          <<15, 0, 0>>,
          <<0, 0>>,
          <<1, 0, 2, 7>>}

CanSendOrdered(mq) ==
    \E s0 \in StartIds :
        (mq.local_order_id - s0[1] + MAX_ORDER_ID) % MAX_ORDER_ID < MaxIdSpan

\* number of messages a queue holds
Held(mq) ==
    Len(mq.i_queue) + Len(mq.r_queue) + Len(mq.o_queue)
    + Len(mq.recv_queue) + HeapSize(mq.o_recv_heap)

HeldOk(mq) == Held(mq) <= MaxHeld

-----------------------------------------------------------------------------
(* Spec: one queue driven through its whole interface *)

CodecIdle ==
    /\ codec_in = <<>>
    /\ codec_bytes = <<>>
    /\ codec_out = <<>>
    /\ cmp_in = <<>>
    /\ cmp_out = <<>>

Init ==
    /\ \E s0 \in StartIds :
        /\ q = NewQueue(s0[1], s0[2])
        /\ sent = s0[1]
        /\ fresh = IF s0 = <<0, 0>> THEN "new" ELSE "sent"
    /\ \E b \in Builds :
        /\ config = b[1]
        /\ overflow_checks = b[2]
    /\ panicked = FALSE
    /\ CodecIdle
    /\ peer = new
    /\ network = {}
    /\ lost = 0
    /\ delivered = <<>>
    /\ yielded = 0
    /\ overrun = FALSE

NetUnchanged ==
    UNCHANGED <<peer, network, lost, delivered, yielded, overrun,
                codec_in, codec_bytes, codec_out, cmp_in, cmp_out>>

Send(kind, data) ==
    /\ ~panicked
    /\ kind = Ordered => CanSendOrdered(q)
    /\ HeldOk(send(q, kind, data))
    /\ q' = send(q, kind, data)
    /\ sent' = IF kind = Ordered THEN sent + 1 ELSE sent
    /\ fresh' = "sent"
    /\ UNCHANGED <<config, overflow_checks, panicked>>
    /\ NetUnchanged

SendPacket(available) ==
    /\ ~panicked
    /\ LET s == send_packet(q, config, available, overflow_checks)
       IN  /\ q' = AfterSendPacket(q, s)
           /\ panicked' = s.panic
    /\ UNCHANGED <<config, overflow_checks, fresh, sent>>
    /\ NetUnchanged

ReceivePacket(packet) ==
    /\ ~panicked
    /\ \A mq \in receive_packet(q, packet) : HeldOk(mq)
    /\ q' \in receive_packet(q, packet)
    /\ UNCHANGED <<config, overflow_checks, panicked, fresh, sent>>
    /\ NetUnchanged

LostPacket(packet) ==
    /\ ~panicked
    /\ HeldOk(lost_packet(q, packet))
    /\ q' = lost_packet(q, packet)
    /\ fresh' = IF fresh \in {"new", "reset"} THEN "lost" ELSE fresh
    /\ UNCHANGED <<config, overflow_checks, panicked, sent>>
    /\ NetUnchanged

Received ==
    /\ ~panicked
    /\ q' = received_next(q).queue
    /\ UNCHANGED <<config, overflow_checks, panicked, fresh, sent>>
    /\ NetUnchanged

Reset ==
    /\ ~panicked
    /\ q' = reset(q)
    /\ sent' = 0
    /\ fresh' = "reset"
    /\ UNCHANGED <<config, overflow_checks, panicked>>
    /\ NetUnchanged

Next ==
    \/ \E kind \in Kinds, data \in Payloads : Send(kind, data)
    \/ \E available \in Budgets : SendPacket(available)
    \/ \E packet \in InPackets : ReceivePacket(packet)
    \/ \E packet \in InPackets : LostPacket(packet)
    \/ Received
    \/ Reset

Spec == Init /\ [][Next]_vars

-----------------------------------------------------------------------------
(* SpecCodec: the wire codec on its own.  A sequence of messages is chosen *)
(* one at a time and serialized as write_message does; then the bytes are  *)
(* parsed back by messages_from_packet.                                    *)

\* most messages in one encoded buffer
MaxCodecMsgs == 2

\* order ids with a zero and a non-zero high nibble and low byte
CodecOrders == {0, 255, 3840, MAX_ORDER_ID - 1}

\* a payload of the largest size the size byte can hold
LongPayload == [i \in 1..255 |-> i]

CodecPayloads == {<<>>, <<0>>, <<255, 2>>, LongPayload}

CodecMessages ==
    {Message(k, o, Len(d), d) :
        k \in {Instant, Reliable, Ordered}, o \in CodecOrders,
        d \in CodecPayloads}

InitCodec ==
    /\ q = new
    /\ sent = 0
    /\ fresh = "new"
    /\ config = DefaultConfig
    /\ overflow_checks = FALSE
    /\ panicked = FALSE
    /\ CodecIdle
    /\ peer = new
    /\ network = {}
    /\ lost = 0
    /\ delivered = <<>>
    /\ yielded = 0
    /\ overrun = FALSE

CodecRest ==
    UNCHANGED <<q, peer, network, config, overflow_checks, panicked, fresh,
                sent, lost, delivered, yielded, overrun, cmp_in, cmp_out>>

\* serialize one more message behind those already in the buffer
CodecWrite(m) ==
    /\ Len(codec_in) < MaxCodecMsgs
    /\ codec_in' = Append(codec_in, m)
    /\ codec_bytes' = codec_bytes \o EncodeMessage(m)
    /\ codec_out' = <<>>
    /\ CodecRest

\* parse the buffer
CodecRead ==
    /\ codec_in # <<>>
    /\ codec_out' = messages_from_packet(codec_bytes)
    /\ UNCHANGED <<codec_in, codec_bytes>>
    /\ CodecRest

NextCodec ==
    \/ \E m \in CodecMessages : CodecWrite(m)
    \/ CodecRead

SpecCodec == InitCodec /\ [][NextCodec]_vars

-----------------------------------------------------------------------------
(* SpecNet: a sender queue q, a receiver queue peer and the packets in     *)
(* flight between them.  Only Ordered messages are sent; the k-th one      *)
(* (counting from 0 at construction) has the two bytes of k as payload.    *)
(* Every packet send_packet produces is either passed once to the          *)
(* receiver's receive_packet, at any later time, or reported once to the   *)
(* sender's lost_packet.                                                   *)

NetPayload(k) == <<k \div 256, k % 256>>

\* which message (by its position in the sending order) a payload belongs to
NetIndex(data) == data[1] * 256 + data[2]

NetMessage(k) == Message(Ordered, k % MAX_ORDER_ID, 2, NetPayload(k))

\* budgets for one and for two of the five-byte messages
NetBudgets == {5, 10}

\* how many Ordered messages the two queues had exchanged before the start
NetStartIds == {0, MAX_ORDER_ID - 2}

\* packets on the way or consumed by the receiver since the start state
NetDeparted == Cardinality(network) + Held(peer) + Len(delivered)

\* both ends idle after s0 messages were sent, received in order and read
NetStart ==
    /\ \E s0 \in NetStartIds :
        /\ q = NewQueue(s0, 0)
        /\ peer = NewQueue(0, s0)
        /\ sent = s0
        /\ yielded = s0
    /\ network = {}
    /\ lost = 0
    /\ overrun = FALSE

\* 4097 messages were sent and each packed alone; the receiver has seen
\* none.  The packets of the first and of the last are in flight; those of
\* messages 4095 down to 1 were reported lost, in that order, and so wait at
\* the sender again.
NetFullWindow ==
    /\ q = [NewQueue(1, 0) EXCEPT
                !.o_queue = [k \in 1..(MAX_ORDER_ID - 1) |-> NetMessage(k)]]
    /\ peer = new
    /\ sent = MAX_ORDER_ID + 1
    /\ yielded = 0
    /\ network = {EncodeMessage(NetMessage(0)),
                  EncodeMessage(NetMessage(MAX_ORDER_ID))}
    /\ lost = MaxLost
    /\ overrun = TRUE

NetRest ==
    /\ delivered = <<>>
    /\ config = DefaultConfig
    /\ overflow_checks = FALSE
    /\ panicked = FALSE
    /\ fresh = "sent"
    /\ CodecIdle

InitNet == (NetStart \/ NetFullWindow) /\ NetRest

\* the start states in which both ends are idle
InitNetIdle == NetStart /\ NetRest

NetFixed ==
    UNCHANGED <<config, overflow_checks, panicked, fresh,
                codec_in, codec_bytes, codec_out, cmp_in, cmp_out>>

\* the application passes the next message to send
NetSend ==
    /\ \E s0 \in NetStartIds : sent - s0 \in 0..(MaxSent - 1)
    /\ q' = send(q, Ordered, NetPayload(sent))
    /\ sent' = sent + 1
    /\ overrun' = (overrun \/ sent + 1 - yielded > MAX_ORDER_ID)
    /\ UNCHANGED <<peer, network, lost, delivered, yielded>>
    /\ NetFixed

\* the sender packs a packet, which goes on the network
NetSendPacket(available) ==
    /\ NetDeparted <= MaxSent
    /\ LET s == send_packet(q, config, available, overflow_checks)
       IN  /\ s.packet # <<>>
           /\ q' = AfterSendPacket(q, s)
           /\ network' = network \cup {s.packet}
    /\ UNCHANGED <<peer, sent, lost, delivered, yielded, overrun>>
    /\ NetFixed

\* a packet arrives at the receiver
NetDeliver(packet) ==
    /\ packet \in network
    /\ peer' \in receive_packet(peer, packet)
    /\ network' = network \ {packet}
    /\ UNCHANGED <<q, sent, lost, delivered, yielded, overrun>>
    /\ NetFixed

\* a packet is reported lost to the sender
NetLose(packet) ==
    /\ packet \in network
    /\ lost < MaxLost
    /\ q' = lost_packet(q, packet)
    /\ network' = network \ {packet}
    /\ lost' = lost + 1
    /\ UNCHANGED <<peer, sent, delivered, yielded, overrun>>
    /\ NetFixed

\* the application reads one message from the receiver's received()
NetYield ==
    /\ received_next(peer).some
    /\ peer' = received_next(peer).queue
    /\ delivered' = Append(delivered, received_next(peer).item)
    /\ yielded' = yielded + 1
    /\ UNCHANGED <<q, network, sent, lost, overrun>>
    /\ NetFixed

NextNet ==
    \/ NetSend
    \/ \E available \in NetBudgets : NetSendPacket(available)
    \/ \E packet \in network : NetDeliver(packet)
    \/ \E packet \in network : NetLose(packet)
    \/ NetYield

SpecNet == InitNet /\ [][NextNet]_vars

\* every packet in flight is eventually delivered (or lost, at most MaxLost
\* times) and the application keeps reading what the receiver has ready
FairSpecNet ==
    /\ InitNetIdle
    /\ [][NextNet]_vars
    /\ WF_vars(\E packet \in network : NetDeliver(packet))
    /\ WF_vars(NetYield)

-----------------------------------------------------------------------------
(* Helpers of the properties *)

KindMsgs(msgs, k) == SelectSeq(msgs, LAMBDA m : m.kind = k)

Reverse(seq) == [i \in 1..Len(seq) |-> seq[Len(seq) + 1 - i]]

BagOfSeq(seq) ==
    [m \in {seq[i] : i \in 1..Len(seq)} |->
        Cardinality({i \in 1..Len(seq) : seq[i] = m})]

\* the pending queue of each retransmittable kind
Retransmitted == {<<Reliable, "r_queue">>, <<Ordered, "o_queue">>}

Packed(mq, available) ==
    send_packet(mq, config, available, overflow_checks)

-----------------------------------------------------------------------------
(* Properties *)

C2_EventuallyYielded ==
    []<>(q.o_queue = <<>>) => []<>(yielded = sent)

\* C3: after receive_packet returns, the out-of-order heap holds no message
\* whose order equals remote_order_id (a buffered message is released by the
\* call that delivers the last missing earlier one), also across the wrap.
C3_HeapReleased ==
    \A m \in BagToSet(q.o_recv_heap) : m.order # q.remote_order_id

\* C4: decoding the concatenated encodings of a sequence of messages gives
\* back the same messages (kind, order, size, data), in the same order.
C4_RoundTrip ==
    /\ messages_from_packet(codec_bytes) = codec_in
    /\ codec_out # <<>> => codec_out = codec_in

\* two messages were serialized and parsed back: one with the largest order
\* id and a 255 byte payload, one whose order id has a zero low byte
C4_Witness ==
    /\ Len(codec_out) = 2
    /\ codec_out[1].order = MAX_ORDER_ID - 1
    /\ codec_out[1].data = LongPayload
    /\ codec_out[2].kind = Ordered
    /\ codec_out[2].order = 3840

\* C5: one send_packet call appends at most `available` bytes and its
\* running total `written` never exceeds `available`, for every budget and
\* every quota configuration.
C5_PacketBudget ==
    \A available \in Budgets :
        /\ Len(Packed(q, available).packet) <= available
        /\ Packed(q, available).written <= available

\* C6: lost_packet puts every Reliable / Ordered message of the packet in
\* its pending queue ahead of everything that was pending, and a later send
\* appends behind them; send_packet serializes a pending queue from its head,
\* so the re-queued messages are encoded first.
C6_RetransmitFirst ==
    /\ \A packet \in InPackets :
        LET after == lost_packet(q, packet)
            msgs == messages_from_packet(packet)
        IN  \A kf \in Retransmitted :
                LET f == kf[2]
                    n == Len(KindMsgs(msgs, kf[1]))
                IN  /\ Len(after[f]) = n + Len(q[f])
                    /\ SubSeq(after[f], n + 1, Len(after[f])) = q[f]
                    /\ BagOfSeq(SubSeq(after[f], 1, n))
                         = BagOfSeq(KindMsgs(msgs, kf[1]))
                    /\ \A data \in Payloads :
                          LET later == send(after, kf[1], data)[f]
                          IN  /\ Len(later) = Len(after[f]) + 1
                              /\ SubSeq(later, 1, Len(after[f])) = after[f]
    /\ \A available \in Budgets :
        LET s == Packed(q, available)
        IN  \A kq \in Retransmitted :
                \E taken \in 0..Len(q[kq[2]]) :
                    /\ KindMsgs(s.log, kq[1]) = SubSeq(q[kq[2]], 1, taken)
                    /\ s[kq[2]]
                         = SubSeq(q[kq[2]], taken + 1, Len(q[kq[2]]))

\* two lost Reliable messages sit ahead of one sent before the loss
C6_Witness ==
    /\ Len(q.r_queue) = 3
    /\ q.r_queue[1].order = PastId
    /\ q.r_queue[2].order = PastId
    /\ q.r_queue[3].order = MAX_ORDER_ID - 1

\* C7 as claimed: messages of one kind are re-queued in the relative order
\* they had in the lost packet.
C7_KeepsPacketOrder ==
    \A packet \in InPackets :
        LET after == lost_packet(q, packet)
            msgs == messages_from_packet(packet)
        IN  \A kf \in Retransmitted :
                SubSeq(after[kf[2]], 1, Len(KindMsgs(msgs, kf[1])))
                    = KindMsgs(msgs, kf[1])

\* C7 amended: messages of one kind are re-queued in the reverse of the
\* order they had in the lost packet, and send_packet writes each pending
\* queue from its head, so they are emitted in that reversed order.
C7_ReversesPacketOrder ==
    /\ \A packet \in InPackets :
        LET after == lost_packet(q, packet)
            msgs == messages_from_packet(packet)
        IN  \A kf \in Retransmitted :
                SubSeq(after[kf[2]], 1, Len(KindMsgs(msgs, kf[1])))
                    = Reverse(KindMsgs(msgs, kf[1]))
    /\ \A available \in Budgets :
        LET s == Packed(q, available)
        IN  \A kf \in Retransmitted :
                q[kf[2]] = KindMsgs(s.log, kf[1]) \o s[kf[2]]

\* only lost_packet was called since new()/reset(), on the packet of two
\* Reliable messages: they are pending in reverse
C7_Witness ==
    /\ fresh = "lost"
    /\ q.r_queue = <<Message(Reliable, PastId, 1, <<7>>),
                     Message(Reliable, PastId, 0, <<>>)>>

\* C8: lost_packet never touches the Instant pending queue, nor does
\* receive_packet; send appends exactly the message passed to it and
\* send_packet removes exactly the Instant messages it serializes, so an
\* Instant message is serialized at most once.
C8_InstantOnce ==
    /\ \A packet \in InPackets :
        /\ lost_packet(q, packet).i_queue = q.i_queue
        /\ \A mq \in receive_packet(q, packet) : mq.i_queue = q.i_queue
    /\ \A available \in Budgets :
        LET s == Packed(q, available)
        IN  q.i_queue = KindMsgs(s.log, Instant) \o s.i_queue
    /\ \A kind \in Kinds, data \in Payloads :
        LET after == send(q, kind, data).i_queue
        IN  IF kind = Instant
            THEN Len(after) = Len(q.i_queue) + 1
                 /\ SubSeq(after, 1, Len(q.i_queue)) = q.i_queue
            ELSE after = q.i_queue

\* a packet with an Instant, a Reliable and an Ordered message was lost
\* while an Instant message was pending: only the latter is in i_queue
C8_Witness ==
    /\ Len(q.i_queue) = 1
    /\ q.i_queue[1].order # PastId
    /\ q.r_queue = <<Message(Reliable, PastId, 1, <<7>>)>>
    /\ q.o_queue = <<Message(Ordered, 1, 0, <<>>)>>

\* C9 as claimed: reset() restores the state new() builds, and from then
\* until send is called again send_packet appends nothing.
C9_NothingUntilSend ==
    /\ reset(q) = new
    /\ fresh \in {"reset", "lost"} =>
          \A available \in Budgets : Packed(q, available).packet = <<>>

\* C9 amended: reset() leaves both order ids 0 and all five containers
\* empty (the state new() builds), so received() yields nothing; from then
\* until send or lost_packet is called again send_packet appends nothing
\* whatever the budget, and the first Ordered message sent carries order 0.
C9_ResetRestores ==
    /\ reset(q) = new
    /\ ~received_next(reset(q)).some
    /\ fresh = "reset" =>
          /\ \A available \in Budgets :
                /\ Packed(q, available).packet = <<>>
                /\ AfterSendPacket(q, Packed(q, available)) = q
          /\ \A data \in Payloads :
                send(q, Ordered, data).o_queue
                    = <<Message(Ordered, 0, Len(data), data)>>

\* reset() was called and since then neither send nor lost_packet, but a
\* packet was received
C9_Witness ==
    /\ fresh = "reset"
    /\ sent = 0
    /\ q.recv_queue # <<>>

\* C10: send(Ordered, _) stamps the message with local_order_id and then
\* advances it by one modulo 4096; no other call but reset changes it; the
\* k-th Ordered message sent since new()/reset() carries k mod 4096.
C10_LocalOrderId ==
    /\ q.local_order_id = sent % MAX_ORDER_ID
    /\ \A kind \in Kinds, data \in Payloads :
        LET after == send(q, kind, data)
        IN  IF kind = Ordered
            THEN /\ after.o_queue[Len(after.o_queue)].order
                        = sent % MAX_ORDER_ID
                 /\ after.local_order_id = (sent + 1) % MAX_ORDER_ID
            ELSE after.local_order_id = q.local_order_id
    /\ \A packet \in InPackets :
        /\ lost_packet(q, packet).local_order_id = q.local_order_id
        /\ \A mq \in receive_packet(q, packet) :
              mq.local_order_id = q.local_order_id
    /\ received_next(q).queue.local_order_id = q.local_order_id
    /\ \A available \in Budgets :
        AfterSendPacket(q, Packed(q, available)).local_order_id
            = q.local_order_id

\* the messages sent 4095th and 4096th (counting from 0) are pending: the
\* second carries order 0
C10_Witness ==
    /\ sent = MAX_ORDER_ID + 1
    /\ Len(q.o_queue) = 2
    /\ q.o_queue[1].order = MAX_ORDER_ID - 1
    /\ q.o_queue[2].order = 0
    /\ q.local_order_id = 1

\* C11: an Ordered message that carries the expected order id is appended to
\* the ready queue by the receive_packet call that delivers it, and
\* remote_order_id advances by one modulo 4096 for each message made ready;
\* so after order 4095 the receiver expects 0 and takes the next order 0
\* at once.
C11_ReceiveWraps ==
    \A o \in InOrders :
        o = q.remote_order_id =>
            \A mq \in receive_packet(q, InOrdered(o)) :
                LET before == Len(q.recv_queue)
                    ready == Len(mq.recv_queue) - before
                IN  /\ ready >= 1
                    /\ SubSeq(mq.recv_queue, 1, before) = q.recv_queue
                    /\ mq.recv_queue[before + 1] = Message(Ordered, o, 0, <<>>)
                    /\ mq.remote_order_id
                         = (q.remote_order_id + ready) % MAX_ORDER_ID
                    /\ HeapSize(mq.o_recv_heap)
                         = HeapSize(q.o_recv_heap) - (ready - 1)
                    /\ o = MAX_ORDER_ID - 1 /\ ready = 1
                         => mq.remote_order_id = 0

\* the messages of order 4095 and 0 arrived in order and are ready, one
\* behind the other; the receiver expects order 1
C11_Witness ==
    /\ q.remote_order_id = 1
    /\ q.o_recv_heap = EmptyBag
    /\ Len(q.recv_queue) >= 2
    /\ q.recv_queue[Len(q.recv_queue) - 1]
         = Message(Ordered, MAX_ORDER_ID - 1, 0, <<>>)
    /\ q.recv_queue[Len(q.recv_queue)] = Message(Ordered, 0, 0, <<>>)

\* C12: every Instant or Reliable message passed to send is serialized with
\* order 0 in its header (the high nibble of byte 0 is 0 and byte 1 is 0),
\* however many Ordered messages were sent before it.
C12_UnorderedCarryZero ==
    \A kind \in {Instant, Reliable}, data \in Payloads :
        LET pending == IF kind = Instant THEN send(q, kind, data).i_queue
                       ELSE send(q, kind, data).r_queue
            header == EncodeMessage(pending[Len(pending)])
        IN  /\ Shr4(header[1]) = 0
            /\ header[2] = 0

\* packets with messages whose kind tag is none of 0, 1, 2: alone, with a
\* payload, and between a Reliable and an Instant message
InvalidPackets ==
    {<<15, 0, 0>>,
     <<3, 0, 1, 9>>,
     InReliable(<<7>>) \o <<3, 0, 1, 9>> \o InInstant}

\* all messages a queue holds
Stored(mq) ==
    {mq.i_queue[i] : i \in 1..Len(mq.i_queue)}
    \cup {mq.r_queue[i] : i \in 1..Len(mq.r_queue)}
    \cup {mq.o_queue[i] : i \in 1..Len(mq.o_queue)}
    \cup {mq.recv_queue[i] : i \in 1..Len(mq.recv_queue)}
    \cup BagToSet(mq.o_recv_heap)

\* the messages of a packet whose kind is Instant, Reliable or Ordered
ValidMsgs(packet) ==
    SelectSeq(messages_from_packet(packet), LAMBDA m : m.kind # Invalid)

\* C13: no container ever holds a message of kind Invalid; send(Invalid, _)
\* changes nothing, and receive_packet and lost_packet treat a packet as if
\* the messages whose kind tag is not 0, 1 or 2 were not in it.
C13_NoInvalidStored ==
    /\ \A m \in Stored(q) : m.kind # Invalid
    /\ \A data \in Payloads : send(q, Invalid, data) = q
    /\ \A packet \in InPackets \cup InvalidPackets :
        /\ receive_packet(q, packet) = ReceiveAll({q}, ValidMsgs(packet))
        /\ lost_packet(q, packet) = LostAll(q, ValidMsgs(packet))
        /\ \A mq \in receive_packet(q, packet) \cup {lost_packet(q, packet)} :
              \A m \in Stored(mq) : m.kind # Invalid
    /\ receive_packet(q, <<15, 0, 0>>) = {q}
    /\ lost_packet(q, <<3, 0, 1, 9>>) = q

\* a queue holding pending and ready messages was given the packet whose
\* only message has kind tag 15: the message decodes as Invalid and the
\* queue is as before
C13_Witness ==
    /\ q.r_queue # <<>>
    /\ q.recv_queue # <<>>
    /\ messages_from_packet(<<15, 0, 0>>) = <<Message(Invalid, 0, 0, <<>>)>>
    /\ q \in receive_packet(q, <<15, 0, 0>>)
    /\ lost_packet(q, <<15, 0, 0>>) = q

\* C14: received() yields the head of the ready queue and removes it, and
\* nothing else; on an empty ready queue it yields nothing and changes
\* nothing.  receive_packet only appends behind what is ready and no other
\* call touches the ready queue, so every message made ready is yielded
\* exactly once, in the order it was appended.
C14_ReadyFifo ==
    /\ IF q.recv_queue # <<>>
       THEN /\ received_next(q).some
            /\ received_next(q).item = Head(q.recv_queue).data
            /\ received_next(q).queue
                 = [q EXCEPT !.recv_queue = Tail(q.recv_queue)]
       ELSE /\ ~received_next(q).some
            /\ received_next(q).queue = q
    /\ \A packet \in InPackets :
        /\ lost_packet(q, packet).recv_queue = q.recv_queue
        /\ \A mq \in receive_packet(q, packet) :
              /\ Len(mq.recv_queue) >= Len(q.recv_queue)
              /\ SubSeq(mq.recv_queue, 1, Len(q.recv_queue)) = q.recv_queue
    /\ \A kind \in Kinds, data \in Payloads :
        send(q, kind, data).recv_queue = q.recv_queue
    /\ \A available \in Budgets :
        AfterSendPacket(q, Packed(q, available)).recv_queue = q.recv_queue

\* the Ordered messages up to order 0 were received and all of them read:
\* the ready queue is exhausted while the receiver expects order 1
C14_Witness ==
    /\ q.remote_order_id = 1
    /\ q.recv_queue = <<>>
    /\ ~received_next(q).some

\* C15: every message held in a pending queue, the ready queue or the
\* out-of-order buffer has size = Len(data), whether it was created by send
\* or decoded from a packet, also a packet whose last message declares more
\* payload bytes than remain.
C15_SizeIsLength ==
    \A m \in Stored(q) : m.size = Len(m.data)

\* C16: the entries of the out-of-order heap have pairwise distinct order
\* ids, whatever packets receive_packet is given.
C16_HeapDistinct ==
    HeapSize(q.o_recv_heap)
        = Cardinality({m.order : m \in BagToSet(q.o_recv_heap)})

\* the bytes of a sequence of messages serialized one behind the other
RECURSIVE EncodeAll(_)
EncodeAll(msgs) ==
    IF msgs = <<>> THEN <<>>
    ELSE EncodeMessage(Head(msgs)) \o EncodeAll(Tail(msgs))

\* the pending queue of each kind
PendingQueues ==
    {<<Instant, "i_queue">>, <<Reliable, "r_queue">>, <<Ordered, "o_queue">>}

\* the head of pending queue f does not fit into `room` bytes
HeadTooBig(s, f, room) ==
    s[f] # <<>> /\ Head(s[f]).size + MESSAGE_HEADER_BYTES > room

\* C17: the messages send_packet removes from a pending queue are a prefix
\* of it, the rest stays as it was, and the bytes appended are the encodings
\* of the removed messages, each once and, within a kind, in queue order;
\* when no pending message fits the budget nothing is appended or removed.
C17_ConsumesWhatItEncodes ==
    \A available \in Budgets :
        LET s == Packed(q, available)
        IN  /\ \A kq \in PendingQueues :
                \E taken \in 0..Len(q[kq[2]]) :
                    /\ KindMsgs(s.log, kq[1]) = SubSeq(q[kq[2]], 1, taken)
                    /\ s[kq[2]]
                         = SubSeq(q[kq[2]], taken + 1, Len(q[kq[2]]))
            /\ s.packet = EncodeAll(s.log)
            /\ Len(s.log) + Len(s.i_queue) + Len(s.r_queue) + Len(s.o_queue)
                 = Len(q.i_queue) + Len(q.r_queue) + Len(q.o_queue)
            /\ (\A kq \in PendingQueues :
                    q[kq[2]] = <<>> \/ HeadTooBig(q, kq[2], available))
                 => /\ s.packet = <<>>
                    /\ AfterSendPacket(q, s) = q

\* two Reliable messages and an Ordered one are pending, and a budget of 7
\* bytes takes the first Reliable and the Ordered message and leaves the
\* second Reliable one
C17_Witness ==
    /\ Len(q.r_queue) = 2
    /\ q.r_queue[1] # q.r_queue[2]
    /\ Len(q.o_queue) = 1
    /\ Len(Packed(q, 7).log) = 2
    /\ Packed(q, 7).r_queue = <<q.r_queue[2]>>
    /\ Packed(q, 7).o_queue = <<>>

\* C18: send_packet terminates after serializing at most the pending
\* messages, and when it returns every pending queue is empty or has a head
\* whose encoded size (3 + size) exceeds `available` minus the bytes written
\* by the call.  `written` counts 3 + size per message, which is the number
\* of bytes appended when every pending message has size = Len(data).
C18_FillsMaximally ==
    \A available \in Budgets :
        LET s == Packed(q, available)
        IN  /\ Len(s.log)
                 <= Len(q.i_queue) + Len(q.r_queue) + Len(q.o_queue)
            /\ ~s.panic =>
                /\ \A kq \in PendingQueues :
                      s[kq[2]] = <<>>
                      \/ HeadTooBig(s, kq[2], available - s.written)
                /\ (\A i \in 1..Len(s.log) :
                        s.log[i].size = Len(s.log[i].data))
                     => s.written = Len(s.packet)

\* three Reliable messages of 3 bytes are pending under the default quotas:
\* with 7 bytes the round-robin pass writes two of them in two rounds and
\* the third no longer fits
C18_Witness ==
    /\ config = DefaultConfig
    /\ Len(q.r_queue) = 3
    /\ \A i \in 1..3 : q.r_queue[i].size = 0
    /\ Len(Packed(q, 7).log) = 2
    /\ Len(Packed(q, 7).r_queue) = 1
    /\ Packed(q, 7).written = 6

\* the bytes write_message counts for a sequence of messages: 3 + size each
RECURSIVE RequiredSum(_)
RequiredSum(msgs) ==
    IF msgs = <<>> THEN 0
    ELSE Head(msgs).size + MESSAGE_HEADER_BYTES + RequiredSum(Tail(msgs))

\* the quota percentage of a kind
QuotaOf(cfg, kind) ==
    CASE kind = Instant -> cfg.message_quota_instant
      [] kind = Reliable -> cfg.message_quota_reliable
      [] OTHER -> cfg.message_quota_ordered

\* the packing state after the quota pass of send_packet
QuotaPacked(mq, available) == QuotaPass(mq, config, available, overflow_checks)

\* C19 as claimed: in the quota pass a message of kind K is serialized only
\* if the bytes written so far in this pass by all kinds, plus its encoded
\* size, do not exceed the quota bytes of K.
C19_CumulativeQuota ==
    \A available \in Budgets :
        LET s == QuotaPacked(q, available)
        IN  \A i \in 1..Len(s.log) :
                RequiredSum(SubSeq(s.log, 1, i))
                    <= QuotaBytes(available, QuotaOf(config, s.log[i].kind))

\* C19 amended: in the quota pass a message of kind K is serialized exactly
\* while the bytes written in this pass for kind K alone, plus its encoded
\* size, do not exceed the quota bytes of K; what other kinds wrote before
\* does not count.
C19_PerKindQuota ==
    \A available \in Budgets :
        LET s == QuotaPacked(q, available)
        IN  /\ ~s.panic
            /\ s.written = RequiredSum(s.log)
            /\ \A kq \in PendingQueues :
                LET quota == QuotaBytes(available, QuotaOf(config, kq[1]))
                    used == RequiredSum(KindMsgs(s.log, kq[1]))
                IN  /\ used <= quota
                    /\ s[kq[2]] = <<>> \/ HeadTooBig(s, kq[2], quota - used)
                    /\ \E taken \in 0..Len(q[kq[2]]) :
                          KindMsgs(s.log, kq[1]) = SubSeq(q[kq[2]], 1, taken)

\* with quotas of 100% each and a budget of 3 bytes the quota pass writes a
\* pending Instant and a pending Reliable message of 3 bytes each
C19_Witness ==
    /\ config = FullConfig
    /\ q.i_queue # <<>>
    /\ q.r_queue # <<>>
    /\ Len(QuotaPacked(q, 3).log) = 2
    /\ QuotaPacked(q, 3).written = 6

\* C20: lost_packet leaves local_order_id, remote_order_id, the ready
\* queue, the out-of-order heap and the Instant queue as they were, and the
\* Ordered messages it puts in front of o_queue are the ones decoded from
\* the packet, order id included; serialized again, each carries that id.
C20_LostKeepsOrderIds ==
    \A packet \in InPackets \cup InvalidPackets :
        LET after == lost_packet(q, packet)
            ordered == KindMsgs(messages_from_packet(packet), Ordered)
            n == Len(ordered)
        IN  /\ after.local_order_id = q.local_order_id
            /\ after.remote_order_id = q.remote_order_id
            /\ after.recv_queue = q.recv_queue
            /\ after.o_recv_heap = q.o_recv_heap
            /\ after.i_queue = q.i_queue
            /\ Len(after.o_queue) = n + Len(q.o_queue)
            /\ SubSeq(after.o_queue, 1, n) = Reverse(ordered)
            /\ \A i \in 1..n :
                  DecodeAt(EncodeMessage(after.o_queue[i]), 0).order
                      = ordered[n + 1 - i].order
            /\ (n >= 1 /\ after.i_queue = <<>> /\ after.r_queue = <<>>) =>
                  LET s == Packed(after,
                                  MESSAGE_HEADER_BYTES + ordered[n].size)
                  IN  /\ s.log = <<ordered[n]>>
                      /\ DecodeAt(s.packet, 0).order = ordered[n].order

\* only lost_packet was called on a new queue, with the Ordered message of
\* order 4095: it is pending with that order id while local_order_id is 0
C20_Witness ==
    /\ fresh = "lost"
    /\ q.local_order_id = 0
    /\ q.o_queue = <<Message(Ordered, MAX_ORDER_ID - 1, 0, <<>>)>>
    /\ Packed(q, 3).packet = InOrdered(MAX_ORDER_ID - 1)

\* an Ordered message that is neither the expected one nor more recent
Stale(mq, m) ==
    /\ m.kind = Ordered
    /\ m.order # mq.remote_order_id
    /\ ~order_is_more_recent(m.order, mq.remote_order_id)

\* C21: an Ordered message whose order id is neither remote_order_id nor
\* more recent than it changes nothing: not the ready queue, the heap,
\* remote_order_id or any sender-side field.  A message that was delivered
\* and arrives again within the stale half-window (its order id is 1 to
\* 2047 behind remote_order_id, counted modulo 4096) is not delivered again.
C21_StaleDropped ==
    /\ \A o \in InOrders, data \in Payloads :
        LET m == Message(Ordered, o, Len(data), data)
        IN  Stale(q, m) =>
                /\ receive_ordered_message(q, m) = {q}
                /\ ReceiveMessage(q, m) = {q}
                /\ receive_packet(q, EncodeMessage(m)) = {q}
    /\ \A packet \in InPackets :
        LET msgs == messages_from_packet(packet)
        IN  (\A i \in 1..Len(msgs) : Stale(q, msgs[i]))
                => receive_packet(q, packet) = {q}
    /\ \A o \in InOrders :
        (q.remote_order_id - o + MAX_ORDER_ID) % MAX_ORDER_ID
                \in 1..(MAX_ORDER_ID \div 2 - 1)
            => receive_packet(q, InOrdered(o)) = {q}

\* the Ordered messages of order 4094 and 4095 were delivered and are
\* ready, the receiver expects 0: order 4095 arriving again is stale
C21_Witness ==
    /\ q.remote_order_id = 0
    /\ Len(q.recv_queue) >= 1
    /\ q.recv_queue[Len(q.recv_queue)]
         = Message(Ordered, MAX_ORDER_ID - 1, 0, <<>>)
    /\ Stale(q, q.recv_queue[Len(q.recv_queue)])
    /\ receive_packet(q, InOrdered(MAX_ORDER_ID - 1)) = {q}

-----------------------------------------------------------------------------
(* SpecDecode: messages_from_packet on arbitrary byte buffers.  A buffer   *)
(* is built byte by byte and parsed at any length.                         *)

\* longest buffer
MaxBufLen == 7

\* byte values: the kind tags 0..3 (also sizes 0..3) and 255, which as a
\* first byte has tag 15 and as a size byte exceeds every buffer
ByteValues == {0, 1, 2, 3, 255}

\* one more byte arrives
DecodeAppend(b) ==
    /\ Len(codec_bytes) < MaxBufLen
    /\ codec_bytes' = Append(codec_bytes, b)
    /\ codec_out' = <<>>
    /\ UNCHANGED codec_in
    /\ CodecRest

\* parse the buffer
DecodeRead ==
    /\ codec_out' = messages_from_packet(codec_bytes)
    /\ UNCHANGED <<codec_in, codec_bytes>>
    /\ CodecRest

NextDecode ==
    \/ \E b \in ByteValues : DecodeAppend(b)
    \/ DecodeRead

SpecDecode == InitCodec /\ [][NextDecode]_vars

\* byte offset of the i-th message decoded: behind the headers and declared
\* sizes of the messages before it
OffsetOf(msgs, i) == RequiredSum(SubSeq(msgs, 1, i - 1))

\* C22: messages_from_packet decodes every buffer: each message starts
\* where the previous header and declared size end and has its 3 header
\* bytes inside the buffer; decoding goes on while 3 bytes remain, so a
\* trailing fragment of fewer than 3 bytes gives no message; a message whose
\* size byte exceeds what remains gets exactly the remaining bytes as
\* payload and is the last one.
C22_DecodeTotal ==
    LET msgs == messages_from_packet(codec_bytes)
        available == Len(codec_bytes)
    IN  /\ codec_out # <<>> => codec_out = msgs
        /\ Len(msgs) <= available \div MESSAGE_HEADER_BYTES
        /\ available < MESSAGE_HEADER_BYTES => msgs = <<>>
        /\ \A i \in 1..Len(msgs) :
            LET at == OffsetOf(msgs, i)
                payload_end == at + MESSAGE_HEADER_BYTES + msgs[i].size
            IN  /\ at + MESSAGE_HEADER_BYTES <= available
                /\ msgs[i].kind = KindOfTag(codec_bytes[at + 1] % 16)
                /\ msgs[i].order
                     = (codec_bytes[at + 1] \div 16) * 256
                       + codec_bytes[at + 2]
                /\ msgs[i].size = codec_bytes[at + 3]
                /\ IF payload_end <= available
                   THEN msgs[i].data
                          = SubSeq(codec_bytes,
                                   at + MESSAGE_HEADER_BYTES + 1, payload_end)
                   ELSE /\ i = Len(msgs)
                        /\ msgs[i].data
                             = SubSeq(codec_bytes,
                                      at + MESSAGE_HEADER_BYTES + 1, available)
        /\ RequiredSum(msgs) <= available
             => available - RequiredSum(msgs) < MESSAGE_HEADER_BYTES

\* a buffer of a complete message, a message declaring 255 payload bytes of
\* which 1 is there, was parsed: two messages, the last one cut short
C22_Witness ==
    /\ Len(codec_out) = 2
    /\ codec_out[1].size = Len(codec_out[1].data)
    /\ codec_out[2].size = 255
    /\ Len(codec_out[2].data) = 1
    /\ Len(codec_bytes) = 7

-----------------------------------------------------------------------------
(* SpecOrder: order_is_more_recent applied to pairs of order ids *)

\* the second id of a pair: both ends of the id space, the ids around half of
\* it and around three quarters of it
ComparedWith == {0, 1, 2047, 2048, 2049, 3071, 3072, 4094, 4095}

\* the first id of a pair: every order id
InitOrder ==
    /\ q = new
    /\ sent = 0
    /\ fresh = "new"
    /\ config = DefaultConfig
    /\ overflow_checks = FALSE
    /\ panicked = FALSE
    /\ codec_in = <<>>
    /\ codec_bytes = <<>>
    /\ codec_out = <<>>
    /\ peer = new
    /\ network = {}
    /\ lost = 0
    /\ delivered = <<>>
    /\ yielded = 0
    /\ overrun = FALSE
    /\ cmp_in \in (0..(MAX_ORDER_ID - 1)) \X ComparedWith
    /\ cmp_out = <<>>

\* compare the pair in both directions
OrderCompare ==
    /\ cmp_out = <<>>
    /\ cmp_out' = <<order_is_more_recent(cmp_in[1], cmp_in[2]),
                    order_is_more_recent(cmp_in[2], cmp_in[1])>>
    /\ UNCHANGED <<q, peer, network, config, overflow_checks, panicked, fresh,
                   codec_in, codec_bytes, codec_out, sent, lost, delivered,
                   yielded, overrun, cmp_in>>

NextOrder == OrderCompare

SpecOrder == InitOrder /\ [][NextOrder]_vars

\* C23: order_is_more_recent is a strict total circular comparison: no id is
\* more recent than itself, of two different ids exactly one is more recent
\* than the other (also when they are MAX_ORDER_ID / 2 apart), and an id that
\* is 1 to MAX_ORDER_ID / 2 - 1 steps ahead of another modulo MAX_ORDER_ID is
\* the more recent one.
C23_StrictTotalCircular ==
    cmp_out # <<>> =>
        LET a == cmp_in[1]
            b == cmp_in[2]
            ahead == (a - b + MAX_ORDER_ID) % MAX_ORDER_ID
        IN  /\ ~order_is_more_recent(a, a)
            /\ ~order_is_more_recent(b, b)
            /\ a = b => cmp_out = <<FALSE, FALSE>>
            /\ a # b => cmp_out[1] # cmp_out[2]
            /\ ahead \in 1..(MAX_ORDER_ID \div 2 - 1) => cmp_out[1]
            /\ ahead > MAX_ORDER_ID \div 2 => cmp_out[2]
            /\ ahead = MAX_ORDER_ID \div 2 => cmp_out[1] = (a > b)

\* two ids exactly half the id space apart were compared: the larger one is
\* the more recent
C23_Witness ==
    /\ cmp_in = <<2048, 0>>
    /\ cmp_out = <<TRUE, FALSE>>

====
